---- MODULE Spec2Model ----
(***************************************************************************)
(* A model of javascript/src/ee.js: the library bootstrap controller       *)
(* (ee.initialize, ee.reset and the two internal resolution handlers), the *)
(* generator of trivial classes, the binder of unbound API methods and the *)
(* argument promoter ee.promote_.                                          *)
(*                                                                         *)
(* JavaScript is single threaded: every exported call and every completion *)
(* of an asynchronous signature load runs to its end before the next one   *)
(* starts, so each of them is one action.  Callbacks supplied by the user  *)
(* run inside the action that invokes them and may call back into          *)
(* ee.initialize, so the handlers are operators over a record of the       *)
(* library's state that call each other as the functions do.               *)
(***************************************************************************)
EXTENDS Integers, Sequences, FiniteSets, TLC

\* ------------------------------------------------------------------ bounds

\* The number of ee.initialize() calls the user makes from the top level.
MaxCalls == 3

\* The number of signatures of a catalog drawn for the generator and the
\* binder, and the number of bootstraps run on such catalogs.
MaxSigs == 2
MaxRuns == 2

\* The number of ee.initialize() calls in the behaviours checked for
\* completion.
MaxLiveCalls == 2

\* ------------------------------------------------------------ ee.InitState

NOT_READY == "not_ready"
LOADING == "loading"
READY == "ready"

InitState == {NOT_READY, LOADING, READY}

\* --------------------------------------------------------------- helpers

Range(f) == {f[i] : i \in DOMAIN f}

RECURSIVE SeqToSet(_)
SeqToSet(q) == IF q = <<>> THEN {} ELSE {Head(q)} \cup SeqToSet(Tail(q))

\* ------------------------------------------------- the signature catalog
\* A signature name "a.b.c" is the sequence of its dot-separated parts; a
\* return type "T<P>" is the record of its bare name and its parametric
\* suffix ("" when it has none).

Sig(name, type, param, hidden) ==
  [name |-> name, returns |-> [type |-> type, param |-> param], hidden |-> hidden]

\* sig.indexOf('.') != -1
HasDot(name) == Len(name) > 1

\* sig.slice(0, sig.indexOf('.'))
Prefix(name) == name[1]

\* A return type taken with its parametric suffix.
StripParamKeepsSuffix(returns) == returns

\* signatures[sig]['returns'].replace(/<.*>/, '')
StripParam(returns) == [type |-> returns.type, param |-> ""]

\* The string a stripped return type is, when it is a bare name.
BareType(name) == [type |-> name, param |-> ""]

\* The keys a JavaScript for-in loop enumerates on an array: its indices,
\* as strings.
IndexString(i) == CASE i = 0 -> "0" [] i = 1 -> "1" [] OTHER -> "n"

ArrayKeys(arr) == {IndexString(i - 1) : i \in DOMAIN arr}

\* var blacklist = ['List'];
blacklist == <<"List">>

\* The constructors goog.require()d into the ee namespace.
HandWrittenTypes ==
  {"ApiFunction", "Collection", "ComputedObject", "Feature", "FeatureCollection",
   "Filter", "Function", "Geometry", "Image", "ImageCollection", "Number", "String"}

\* The members of the ee namespace that are no constructors.
NamespaceMembers ==
  {"Algorithms", "InitState", "TILE_SIZE", "Types", "data",
   "initialize", "reset", "ready", "call", "apply"}

\* goog.global['ee'] when the library has been loaded and nothing generated.
BaseExportedEE == HandWrittenTypes \cup NamespaceMembers

\* The hand-written types whose initialize() hook imports the API functions
\* of their own prefix.
ApiTypes ==
  {"Image", "Feature", "Collection", "ImageCollection", "FeatureCollection",
   "Filter", "Geometry", "Number", "String"}

\* ------------------------------------------------------- the library state
\* The operators below take and return the record s of the library's state:
\*   ready_, successCallbacks_, errorCallbacks_, generatedClasses_   (ee.js)
\*   exportedEE    the names bound in goog.global['ee']
\*   Algorithms    the entries of ee.Algorithms, each the path of a node
\*   api           the signatures ee.ApiFunction holds (<<>> when none)
\*   transport     the endpoints ee.data holds
\*   loads         the asynchronous signature loads in flight
\*   log, runs     what the current operation did / how often each callback ran
\*   made          the number of ee.initialize() calls made so far
\*   applied       the catalogs the class generator ran on since the last
\*                 reset, the latest last
\*   threw         whether a callback has raised

NoUrl == ""

DefaultTransport == [base |-> "default", tile |-> "default"]

NoCallback == [id |-> 0, act |-> "none"]

NoError == "none"
LoadFailure == "LoadFailure"
HookFailure == "HookFailure"
UsageError == "UsageError"
CallbackError == "CallbackError"

Event(ev, id, at, arg) == [ev |-> ev, id |-> id, at |-> at, arg |-> arg]

Return(s) == [s |-> s, exc |-> NoError]

Throw(s, e) == [s |-> s, exc |-> e]

\* ------------------------------------------------------- ClassGenerator

\* var names = {}: the prefixes of the dotted signature names.
CandidateNames(signatures) ==
  {Prefix(signatures[i].name) :
     i \in {j \in DOMAIN signatures : HasDot(signatures[j].name)}}

\* var returnTypes = {}: the stripped return types.
CandidateReturnTypes(signatures) ==
  {StripParam(signatures[i].returns) : i \in DOMAIN signatures}

\* for (var badName in blacklist) { if (names[badName]) delete names[badName]; }
RemoveBlacklisted(names) == names \ ArrayKeys(blacklist)

\* The order in which for (var name in names) visits the names: the order
\* in which they were first set.
RECURSIVE NameOrder(_, _)
NameOrder(signatures, seen) ==
  IF signatures = <<>> THEN <<>>
  ELSE LET sig == Head(signatures)
           new == HasDot(sig.name) /\ Prefix(sig.name) \notin seen
       IN IF new
          THEN <<Prefix(sig.name)>> \o
               NameOrder(Tail(signatures), seen \cup {Prefix(sig.name)})
          ELSE NameOrder(Tail(signatures), seen)

\* exportedEE[name] = ee.makeClass_(name): a constructor inheriting from
\* ee.ComputedObject is bound to the name.
makeClass_(s, name) == [s EXCEPT !.exportedEE = @ \cup {name}]

RECURSIVE GenerateClasses(_, _, _, _)
GenerateClasses(s, order, names, returnTypes) ==
  IF order = <<>> THEN s
  ELSE LET name == Head(order)
           s1 == IF /\ name \in names
                    /\ BareType(name) \in returnTypes
                    /\ name \notin s.exportedEE
                 THEN [makeClass_(s, name) EXCEPT
                         !.generatedClasses_ = Append(@, name)]
                 ELSE s
       IN GenerateClasses(s1, Tail(order), names, returnTypes)

initializeGeneratedClasses_(s) ==
  LET signatures == s.api
      names == RemoveBlacklisted(CandidateNames(signatures))
      returnTypes == CandidateReturnTypes(signatures)
  IN GenerateClasses(s, NameOrder(signatures, {}), names, returnTypes)

\* A teardown that forgets delete exportedEE[name].
resetGeneratedClassesKeepsNames_(s) == [s EXCEPT !.generatedClasses_ = <<>>]

resetGeneratedClasses_(s) ==
  [s EXCEPT !.exportedEE = @ \ SeqToSet(s.generatedClasses_),
            !.generatedClasses_ = <<>>]

\* --------------------------------------------------- UnboundMethodBinder

\* ee.ApiFunction.unboundFunctions(): the signatures no type has imported.
\* A type imports the signatures named "<its name>.<something>".
RECURSIVE Unbound(_, _)
Unbound(signatures, bound) ==
  IF signatures = <<>> THEN <<>>
  ELSE LET sig == Head(signatures)
           rest == Unbound(Tail(signatures), bound)
       IN IF HasDot(sig.name) /\ Prefix(sig.name) \in bound
          THEN rest ELSE <<sig>> \o rest

unboundFunctions(s) ==
  Unbound(s.api, ApiTypes \cup SeqToSet(s.generatedClasses_))

IsPrefix(p, q) == Len(p) <= Len(q) /\ SubSeq(q, 1, Len(p)) = p

\* first in target
HasMember(algs, target, first) ==
  \E e \in algs : e.path = Append(target, first)

Node(path) == [path |-> path, leaf |-> FALSE, sig |-> <<>>]

Leaf(path, name) == [path |-> path, leaf |-> TRUE, sig |-> name]

\* while (nameParts.length > 1) { ... }
RECURSIVE WalkNamespace(_, _, _)
WalkNamespace(algs, target, nameParts) ==
  IF Len(nameParts) > 1
  THEN LET first == nameParts[1]
           a1 == IF ~HasMember(algs, target, first)
                 THEN algs \cup {Node(Append(target, first))}
                 ELSE algs
       IN WalkNamespace(a1, Append(target, first), Tail(nameParts))
  ELSE [algs |-> algs, target |-> target, nameParts |-> nameParts]

\* target[nameParts[0]] = bound: whatever the name held before, with all
\* that hung below it, is replaced by the bound function.
AttachFunction(algs, sig) ==
  LET w == WalkNamespace(algs, <<>>, sig.name)
      path == Append(w.target, w.nameParts[1])
  IN {e \in w.algs : ~IsPrefix(path, e.path)} \cup {Leaf(path, sig.name)}

RECURSIVE BindUnbound(_, _)
BindUnbound(algs, funcs) ==
  IF funcs = <<>> THEN algs
  ELSE LET sig == Head(funcs)
       IN BindUnbound(IF sig.hidden THEN algs ELSE AttachFunction(algs, sig),
                      Tail(funcs))

initializeUnboundMethods_(s) ==
  [s EXCEPT !.Algorithms = BindUnbound(@, unboundFunctions(s))]

\* ------------------------------------------------ InitializationController

\* What the surroundings decide for a signature load and the bootstrap that
\* follows it: whether the load succeeds, the catalog the server returns and
\* the place, if any, where a hook of the bootstrap raises.
Outcome(loaded, catalog, hook) ==
  [loaded |-> loaded, catalog |-> catalog, hook |-> hook]

NoOutcome == Outcome(TRUE, <<>>, "none")

\* Every call of ee.initialize(), from the top level or from a callback, is
\* numbered in the order the calls are made; its callbacks carry the number.
CallbackIds == 1 .. 3 * MaxCalls

\* The endpoint a callback passes when it calls ee.initialize() itself.
OtherUrl == "other"

\* ee.data.initialize(opt_baseurl, opt_tileurl): an endpoint that is given
\* replaces the one held.
Configure(s, baseurl, tileurl) ==
  [s EXCEPT !.transport = [base |-> IF baseurl # NoUrl THEN baseurl ELSE @.base,
                           tile |-> IF tileurl # NoUrl THEN tileurl ELSE @.tile],
            !.log = Append(@, Event("configure", 0, s.ready_, NoError))]

\* ee.ApiFunction.initialize(success, failure): an asynchronous load starts;
\* it completes in a later turn.
StartLoad(s, attempt) ==
  [s EXCEPT !.loads = @ \cup {attempt},
            !.log = Append(@, Event("load", attempt, s.ready_, NoError))]

\* if (opt_errorCallback) { ee.errorCallbacks_.push(opt_errorCallback); }
RegisterErrorCallback(s, opt_errorCallback) ==
  IF opt_errorCallback # NoCallback
  THEN [s EXCEPT !.errorCallbacks_ = Append(@, opt_errorCallback)]
  ELSE s

\* An asynchronous mode that configures the transport before it looks at
\* the state.
initializeAsynchronousConfiguresFirst(s, opt_baseurl, opt_tileurl, opt_successCallback, opt_errorCallback) ==
  LET s1 == Configure(RegisterErrorCallback(s, opt_errorCallback),
                      opt_baseurl, opt_tileurl)
      s2 == [s1 EXCEPT !.ready_ = LOADING]
  IN IF s1.ready_ = LOADING
     THEN [s1 EXCEPT !.successCallbacks_ = Append(@, opt_successCallback)]
     ELSE StartLoad(
            [s2 EXCEPT !.successCallbacks_ = Append(@, opt_successCallback)],
            opt_successCallback.id)

\* ee.initialize() past its first test and with a success callback: the
\* asynchronous mode.
initializeAsynchronous(s, opt_baseurl, opt_tileurl, opt_successCallback, opt_errorCallback) ==
  LET s1 == RegisterErrorCallback(s, opt_errorCallback)
      s2 == Configure([s1 EXCEPT !.ready_ = LOADING], opt_baseurl, opt_tileurl)
  IN IF s1.ready_ = LOADING
     THEN [s1 EXCEPT !.successCallbacks_ = Append(@, opt_successCallback)]
     ELSE StartLoad(
            [s2 EXCEPT !.successCallbacks_ = Append(@, opt_successCallback)],
            opt_successCallback.id)

\* One callback of the user runs: it returns, raises, or calls
\* ee.initialize(OtherUrl, undefined, f, g) with callbacks f and g of its
\* own.  With an endpoint and a success callback that call is past the first
\* test of ee.initialize() and in the asynchronous mode.
Invoke(s, cb, kind, arg) ==
  LET s1 == [s EXCEPT !.log = Append(@, Event(kind, cb.id, s.ready_, arg)),
                      !.runs = [@ EXCEPT ![<<kind, cb.id>>] = @ + 1]]
      s2 == [s1 EXCEPT !.made = @ + 1]
      fresh == [id |-> s2.made, act |-> "return"]
  IN CASE cb.act = "raise" -> Throw([s1 EXCEPT !.threw = TRUE], CallbackError)
       [] cb.act = "reinit" ->
            Return(initializeAsynchronous(s2, OtherUrl, NoUrl, fresh, fresh))
       [] OTHER -> Return(s1)

\* while (ee.errorCallbacks_.length > 0) { ee.errorCallbacks_.shift()(e); }
RECURSIVE CallErrorCallbacks(_, _)
CallErrorCallbacks(s, e) ==
  IF Len(s.errorCallbacks_) > 0
  THEN LET r == Invoke([s EXCEPT !.errorCallbacks_ = Tail(@)],
                       Head(s.errorCallbacks_), "error", e)
       IN IF r.exc # NoError THEN r ELSE CallErrorCallbacks(r.s, e)
  ELSE Return(s)

\* The handler is entered: the log tells in which state and with which error.
Entered(s, e) == [s EXCEPT !.log = Append(@, Event("failure", 0, s.ready_, e))]

\* A failure handler without the test of ee.ready_.
initializationFailureUnguarded_(s, e) ==
  CallErrorCallbacks(
    [Entered(s, e) EXCEPT !.ready_ = NOT_READY, !.successCallbacks_ = <<>>],
    e)

\* A failure handler that leaves the success callbacks queued.
initializationFailureKeepsQueue_(s, e) ==
  IF s.ready_ # LOADING THEN Return(Entered(s, e))
  ELSE CallErrorCallbacks([Entered(s, e) EXCEPT !.ready_ = NOT_READY], e)

initializationFailure_(s, e) ==
  IF s.ready_ # LOADING THEN Return(Entered(s, e))
  ELSE CallErrorCallbacks(
         [Entered(s, e) EXCEPT !.ready_ = NOT_READY, !.successCallbacks_ = <<>>],
         e)

\* A drain that takes the callback queued last: pop() for shift().
RECURSIVE CallSuccessCallbacksLastFirst(_)
CallSuccessCallbacksLastFirst(s) ==
  IF Len(s.successCallbacks_) > 0
  THEN LET n == Len(s.successCallbacks_)
           r == Invoke([s EXCEPT !.successCallbacks_ = SubSeq(@, 1, n - 1)],
                       s.successCallbacks_[n], "success", NoError)
       IN IF r.exc # NoError THEN r ELSE CallSuccessCallbacksLastFirst(r.s)
  ELSE Return(s)

\* while (ee.successCallbacks_.length > 0) { ee.successCallbacks_.shift()(); }
RECURSIVE CallSuccessCallbacks(_)
CallSuccessCallbacks(s) ==
  IF Len(s.successCallbacks_) > 0
  THEN LET r == Invoke([s EXCEPT !.successCallbacks_ = Tail(@)],
                       Head(s.successCallbacks_), "success", NoError)
       IN IF r.exc # NoError THEN r ELSE CallSuccessCallbacks(r.s)
  ELSE Return(s)

\* The catalogs generated from, the latest last.
RECURSIVE Without(_, _)
Without(q, x) ==
  IF q = <<>> THEN <<>>
  ELSE IF Head(q) = x THEN Without(Tail(q), x)
  ELSE <<Head(q)>> \o Without(Tail(q), x)

Applied(q, catalog) == Append(Without(q, catalog), catalog)

\* The try block of ee.initializationSuccess_: the hooks of the hand-written
\* types, then the class generator, then the binder.  hook names the call
\* that raises: a type's initialize(), ee.Types.registerClasses() at the end
\* of the generator, or getSignature() of the first unbound function.
Bootstrap(s, hook) ==
  IF hook = "types" THEN Throw(s, HookFailure)
  ELSE LET g == [initializeGeneratedClasses_(s) EXCEPT
                    !.applied = Applied(@, s.api)]
       IN IF hook = "generate" THEN Throw(g, HookFailure)
          ELSE IF hook = "unbound" /\ unboundFunctions(g) # <<>>
               THEN Throw(g, HookFailure)
               ELSE Return(initializeUnboundMethods_(g))

\* A success handler without the test of ee.ready_.
initializationSuccessUnguarded_(s, hook) ==
  LET t == Bootstrap(s, hook)
  IN IF t.exc # NoError
     THEN initializationFailure_(t.s, t.exc)
     ELSE CallSuccessCallbacks(
            [t.s EXCEPT !.ready_ = READY, !.errorCallbacks_ = <<>>,
                        !.log = Append(@, Event("ready", 0, READY, NoError))])

initializationSuccess_(s, hook) ==
  IF s.ready_ # LOADING THEN Return(s)
  ELSE LET t == Bootstrap(s, hook)
       IN IF t.exc # NoError
          THEN initializationFailure_(t.s, t.exc)
          ELSE CallSuccessCallbacks(
                 [t.s EXCEPT !.ready_ = READY, !.errorCallbacks_ = <<>>,
                             !.log = Append(@, Event("ready", 0, READY, NoError))])

\* try { ee.ApiFunction.initialize(); ee.initializationSuccess_(); }
\* catch (e) { ee.initializationFailure_(e); throw e; }
initializeSynchronous(s, outcome) ==
  LET s1 == [s EXCEPT !.log = Append(@, Event("load", 0, s.ready_, NoError))]
      r == IF ~outcome.loaded THEN Throw(s1, LoadFailure)
           ELSE initializationSuccess_([s1 EXCEPT !.api = outcome.catalog],
                                       outcome.hook)
      f == initializationFailure_(r.s, r.exc)
  IN IF r.exc = NoError THEN r
     ELSE IF f.exc # NoError THEN f ELSE Throw(f.s, r.exc)

\* ee.initialize() without its first test.
initializeWithoutFastPath(s, opt_baseurl, opt_tileurl, opt_successCallback, opt_errorCallback, outcome) ==
  LET isAsynchronous == opt_successCallback # NoCallback
  IN IF opt_errorCallback # NoCallback /\ ~isAsynchronous
     THEN Throw(s, UsageError)
     ELSE IF isAsynchronous
     THEN Return(initializeAsynchronous(s, opt_baseurl, opt_tileurl,
                                         opt_successCallback, opt_errorCallback))
     ELSE initializeSynchronous(
            Configure([s EXCEPT !.ready_ = LOADING], opt_baseurl, opt_tileurl),
            outcome)

\* ee.initialize() that registers the error callback before it looks at the
\* mode.
initializeRegistersFirst(s, opt_baseurl, opt_tileurl, opt_successCallback, opt_errorCallback, outcome) ==
  LET isAsynchronous == opt_successCallback # NoCallback
  IN IF s.ready_ = READY /\ opt_baseurl = NoUrl /\ opt_tileurl = NoUrl
     THEN IF opt_successCallback # NoCallback
          THEN Invoke(s, opt_successCallback, "success", NoError)
          ELSE Return(s)
     ELSE IF opt_errorCallback # NoCallback /\ ~isAsynchronous
     THEN Throw(RegisterErrorCallback(s, opt_errorCallback), UsageError)
     ELSE IF isAsynchronous
     THEN Return(initializeAsynchronous(s, opt_baseurl, opt_tileurl,
                                         opt_successCallback, opt_errorCallback))
     ELSE initializeSynchronous(
            Configure([s EXCEPT !.ready_ = LOADING], opt_baseurl, opt_tileurl),
            outcome)

initialize(s, opt_baseurl, opt_tileurl, opt_successCallback, opt_errorCallback, outcome) ==
  LET isAsynchronous == opt_successCallback # NoCallback
  IN IF s.ready_ = READY /\ opt_baseurl = NoUrl /\ opt_tileurl = NoUrl
     THEN IF opt_successCallback # NoCallback
          THEN Invoke(s, opt_successCallback, "success", NoError)
          ELSE Return(s)
     ELSE IF opt_errorCallback # NoCallback /\ ~isAsynchronous
     THEN Throw(s, UsageError)
     ELSE IF isAsynchronous
     THEN Return(initializeAsynchronous(s, opt_baseurl, opt_tileurl,
                                         opt_successCallback, opt_errorCallback))
     ELSE initializeSynchronous(
            Configure([s EXCEPT !.ready_ = LOADING], opt_baseurl, opt_tileurl),
            outcome)

\* ee.data.reset(), ee.ApiFunction.reset() and the reset() of the types.
ResetCollaborators(s) == [s EXCEPT !.transport = DefaultTransport, !.api = <<>>]

reset(s) ==
  [resetGeneratedClasses_(ResetCollaborators([s EXCEPT !.ready_ = NOT_READY]))
     EXCEPT !.Algorithms = {}, !.applied = <<>>]

\* ----------------------------------------------------------- TypePromoter
\* A value is a record: its kind, the class it is an instance of (computed
\* values only), its literal (numbers, strings, booleans, error messages),
\* the name of its function as the sequence of the dot-separated parts, and
\* its arguments.

Value(kind, class, lit, func, args) ==
  [kind |-> kind, class |-> class, lit |-> lit, func |-> func, args |-> args]

Null == Value("null", "", "", <<>>, <<>>)
Undefined == Value("undefined", "", "", <<>>, <<>>)
Number(lit) == Value("number", "", lit, <<>>, <<>>)
JsString(lit) == Value("string", "", lit, <<>>, <<>>)
Boolean(lit) == Value("boolean", "", lit, <<>>, <<>>)
PlainObject == Value("object", "", "", <<>>, <<>>)

\* new Date(arg)
NativeDate(arg) == Value("date", "", "", <<>>, <<arg>>)

\* new ee.ApiFunction(name)
ApiFunction(arg) == Value("function", "ApiFunction", "", <<>>, <<arg>>)

\* A computed value: an instance of class that applies func to args.
Computed(class, func, args) == Value("computed", class, "", func, args)

\* throw new Error(lit + klass + '.' + arg)
Raise(lit, klass, arg) == Value("raise", "", lit, <<klass>>, <<arg>>)

\* if (arg): null, undefined, 0, "" and false are not taken.
Truthy(v) ==
  v \notin {Null, Undefined, Number("0"), JsString(""), Boolean("false")}

\* goog.inherits: the collections are ee.Collections, and every proxy type,
\* hand-written or generated (goog.inherits(target, ee.ComputedObject)), is
\* an ee.ComputedObject.
Superclass(class) ==
  CASE class \in {"FeatureCollection", "ImageCollection"} -> "Collection"
    [] class \in {"ComputedObject", ""} -> ""
    [] OTHER -> "ComputedObject"

\* arg instanceof class
InstanceOf(arg, class) ==
  /\ arg.kind = "computed"
  /\ class \in {arg.class, Superclass(arg.class),
                 Superclass(Superclass(arg.class))}

\* The constructor ee.makeClass_ builds: a computed value given alone is
\* taken over as it is, anything else becomes the arguments of the algorithm
\* of the class' name.
target(name, arg) ==
  IF InstanceOf(arg, "ComputedObject")
  THEN Computed(name, arg.func, arg.args)
  ELSE Computed(name, <<name>>, <<arg>>)

\* new ee.<Type>(arg) of a hand-written type: it wraps the value, as the
\* constructor of a generated type does.
New(type, arg) == target(type, arg)

\* The type ee.ApiFunction._call casts its result to: the return type of the
\* algorithm when it is a proxy type.
ReturnClass(func) ==
  CASE func = <<"Feature">> -> "Feature"
    [] func = <<"Collection", "geometry">> -> "Geometry"
    [] OTHER -> "ComputedObject"

\* ee.ApiFunction._call(name, args...)
ApiCall(func, args) == Computed(ReturnClass(func), func, args)

\* arg in exportedEE[klass]: the functions "klass.arg" of the catalog that
\* the type has imported.
RECURSIVE Member(_, _, _)
Member(signatures, klass, arg) ==
  IF signatures = <<>> THEN <<>>
  ELSE IF Head(signatures).name = <<klass, arg>>
  THEN <<Head(signatures)>>
  ELSE Member(Tail(signatures), klass, arg)

\* exportedEE[klass][arg].call(): the call of "klass.arg" without arguments,
\* cast to its return type when that is a registered proxy type.
CallMember(s, sig) ==
  Computed(IF sig.returns.type \in
                (HandWrittenTypes \cup SeqToSet(s.generatedClasses_)) \cap s.exportedEE
           THEN sig.returns.type ELSE "ComputedObject",
           sig.name, <<>>)

\* case 'Feature': case 'EEObject':
PromoteFeature(arg, klass) ==
  IF InstanceOf(arg, "Collection")
  THEN ApiCall(<<"Feature">>, <<ApiCall(<<"Collection", "geometry">>, <<arg>>)>>)
  ELSE IF klass = "EEObject" /\ InstanceOf(arg, "Image") THEN arg
  ELSE New("Feature", arg)

\* case 'Geometry':
PromoteGeometry(arg) ==
  IF InstanceOf(arg, "FeatureCollection")
  THEN ApiCall(<<"Collection", "geometry">>, <<arg>>)
  ELSE New("Geometry", arg)

\* case 'FeatureCollection': case 'EECollection': case 'Collection':
PromoteCollection(arg) ==
  IF InstanceOf(arg, "Collection") THEN arg ELSE New("FeatureCollection", arg)

\* An ErrorMargin branch without the test for a number.
PromoteErrorMarginAlways(arg) ==
  ApiCall(<<"ErrorMargin">>, <<arg, JsString("meters")>>)

\* case 'ErrorMargin':
PromoteErrorMargin(arg) ==
  IF arg.kind = "number"
  THEN ApiCall(<<"ErrorMargin">>, <<arg, JsString("meters")>>)
  ELSE arg

\* case 'Algorithm':
PromoteAlgorithm(arg) == IF arg.kind = "string" THEN ApiFunction(arg) ELSE arg

\* case 'Date': the computed value becomes the argument of a call of the
\* "Date" algorithm, which the result is not cast by.
PromoteDate(arg) ==
  IF arg.kind = "string" THEN NativeDate(arg)
  ELSE IF arg.kind = "number" THEN NativeDate(arg)
  ELSE IF InstanceOf(arg, "ComputedObject")
  THEN Computed("ComputedObject", <<"Date">>, <<arg>>)
  ELSE arg

\* case 'Dictionary':
PromoteDictionary(s, arg, klass) ==
  IF klass \notin s.exportedEE THEN arg
  ELSE IF InstanceOf(arg, klass) THEN arg
  ELSE IF InstanceOf(arg, "ComputedObject") THEN target(klass, arg)
  ELSE arg

\* case 'String': ee.Types.isString(arg) holds of the strings; no value is
\* a variable.
PromoteString(arg) ==
  IF \/ arg.kind = "string"
     \/ InstanceOf(arg, "String")
     \/ InstanceOf(arg, "ComputedObject")
  THEN New("String", arg)
  ELSE arg

\* default:
PromoteDefault(s, arg, klass) ==
  IF klass \in s.exportedEE /\ Truthy(arg)
  THEN IF InstanceOf(arg, klass) THEN arg
       ELSE IF arg.kind = "string"
       THEN IF Member(s.api, klass, arg.lit) = <<>>
            THEN Raise("Unknown algorithm: ", klass, arg)
            ELSE CallMember(s, Member(s.api, klass, arg.lit)[1])
       ELSE target(klass, arg)
  ELSE arg

promote_(s, arg, klass) ==
  IF arg = Null THEN Null
  ELSE IF arg = Undefined THEN Undefined
  ELSE CASE klass = "Image" -> New("Image", arg)
         [] klass = "ImageCollection" -> New("ImageCollection", arg)
         [] klass \in {"Feature", "EEObject"} -> PromoteFeature(arg, klass)
         [] klass = "Geometry" -> PromoteGeometry(arg)
         [] klass \in {"FeatureCollection", "EECollection", "Collection"} ->
              PromoteCollection(arg)
         [] klass = "Filter" -> New("Filter", arg)
         [] klass = "ErrorMargin" -> PromoteErrorMargin(arg)
         [] klass = "Algorithm" -> PromoteAlgorithm(arg)
         [] klass = "Date" -> PromoteDate(arg)
         [] klass = "Dictionary" -> PromoteDictionary(s, arg, klass)
         [] klass = "String" -> PromoteString(arg)
         [] klass = "List" -> arg
         [] OTHER -> PromoteDefault(s, arg, klass)

\* ee.promote_(ee.promote_(arg, klass), klass): an error of the inner call
\* is the error of the whole.
promoteTwice(s, arg, klass) ==
  LET once == promote_(s, arg, klass)
  IN IF once.kind = "raise" THEN once ELSE promote_(s, once, klass)

\* ------------------------------------------------------------- the state

VARIABLES
  ready_,             \* ee.ready_
  successCallbacks_,  \* ee.successCallbacks_
  errorCallbacks_,    \* ee.errorCallbacks_
  generatedClasses_,  \* ee.generatedClasses_
  exportedEE,         \* the names bound in goog.global['ee']
  Algorithms,         \* ee.Algorithms
  api,                \* the signatures ee.ApiFunction holds
  transport,          \* the endpoints ee.data holds
  loads,              \* the asynchronous loads in flight
  runs,               \* how often each callback has been invoked
  made,               \* the number of ee.initialize() calls made
  applied,            \* the catalogs generated from since the last reset
  threw,              \* whether a callback has raised
  calls,              \* the number of top-level ee.initialize() calls
  last,               \* the operation that ran last and what it did
  phase,              \* how far a supersession has got
  snapshot,           \* the registry as the last ee.reset() found it
  promotion           \* the promotion made last and its results

lib == <<ready_, successCallbacks_, errorCallbacks_, generatedClasses_,
         exportedEE, Algorithms, api, transport, loads, runs, made, applied,
         threw>>

vars == <<lib, calls, last, phase, snapshot, promotion>>

\* The library's state as the record the operators work on, with an empty
\* log for the operation that starts.
State ==
  [ready_ |-> ready_, successCallbacks_ |-> successCallbacks_,
   errorCallbacks_ |-> errorCallbacks_, generatedClasses_ |-> generatedClasses_,
   exportedEE |-> exportedEE, Algorithms |-> Algorithms, api |-> api,
   transport |-> transport, loads |-> loads, runs |-> runs, made |-> made,
   applied |-> applied, threw |-> threw, log |-> <<>>]

Commit(s) ==
  /\ ready_' = s.ready_
  /\ successCallbacks_' = s.successCallbacks_
  /\ errorCallbacks_' = s.errorCallbacks_
  /\ generatedClasses_' = s.generatedClasses_
  /\ exportedEE' = s.exportedEE
  /\ Algorithms' = s.Algorithms
  /\ api' = s.api
  /\ transport' = s.transport
  /\ loads' = s.loads
  /\ runs' = s.runs
  /\ made' = s.made
  /\ applied' = s.applied
  /\ threw' = s.threw

\* What is recorded of an operation: the call and its arguments, the error
\* it raised, what it did in order, and whether a callback it invoked called
\* ee.initialize() in turn.
Operation(op, id, mode, config, r) ==
  [op |-> op, id |-> id, mode |-> mode, config |-> config,
   exc |-> r.exc, log |-> r.s.log,
   nested |-> r.s.made > (IF op = "initialize" THEN made + 1 ELSE made)]

NoOperation ==
  [op |-> "none", id |-> 0, mode |-> "", config |-> FALSE,
   exc |-> NoError, log |-> <<>>, nested |-> FALSE]

\* The asynchronous load an operation started for its own call, 0 if none.
Started(o) ==
  IF \E i \in DOMAIN o.log : o.log[i].ev = "load" /\ o.log[i].id = o.id /\ o.id > 0
  THEN o.id ELSE 0

\* A supersession: an asynchronous ee.initialize() starts a load (stage 1),
\* the next operation is a synchronous ee.initialize() during which no
\* callback calls ee.initialize() (stage 2), and the next one is the
\* completion of that load (stage 3).  stale holds the loads that were in
\* flight when a synchronous ee.initialize() ran its own load or when
\* ee.reset() was called: the attempts that have been superseded.
NoPhase == [load |-> 0, stage |-> 0, stale |-> {}]

Supersedes(o) ==
  \/ o.op = "reset"
  \/ /\ o.op = "initialize"
     /\ o.mode = "sync"
     /\ \E i \in DOMAIN o.log : o.log[i].ev = "load" /\ o.log[i].id = 0

NextPhase(ph, o) ==
  LET stale == ph.stale \cup (IF Supersedes(o) THEN loads ELSE {})
  IN IF o.op = "initialize" /\ o.mode \in {"async", "asyncErr"} /\ Started(o) > 0
     THEN [load |-> o.id, stage |-> 1, stale |-> stale]
     ELSE IF ph.stage = 1 /\ o.op = "initialize" /\ o.mode = "sync" /\ ~o.nested
     THEN [load |-> ph.load, stage |-> 2, stale |-> stale]
     ELSE IF /\ ph.stage = 2
             /\ o.op \in {"loadSuccess", "loadFailure"}
             /\ o.id = ph.load
     THEN [load |-> ph.load, stage |-> 3, stale |-> stale]
     ELSE [load |-> 0, stage |-> 0, stale |-> stale]

NoPromotion ==
  [made |-> FALSE, arg |-> Null, klass |-> "", once |-> Null, twice |-> Null,
   registered |-> FALSE, member |-> FALSE]

Snapshot ==
  [ready |-> ready_, applied |-> applied, classes |-> generatedClasses_,
   algs |-> Algorithms]

\* ------------------------------------------------------ the surroundings

\* The catalogs the servers return.
CatalogA ==
  <<Sig(<<"Kernel", "gaussian">>, "Kernel", "", FALSE),
    Sig(<<"Landsat", "SimpleComposite">>, "Image", "", FALSE),
    Sig(<<"List", "map">>, "List", "Object", FALSE)>>

CatalogB ==
  <<Sig(<<"Dictionary", "fromLists">>, "Dictionary", "Object", FALSE),
    Sig(<<"Kernel", "square">>, "Kernel", "", FALSE),
    Sig(<<"Image", "load">>, "Image", "", FALSE),
    Sig(<<"Secret">>, "Object", "", TRUE)>>

Hooks == {"none", "types", "generate", "unbound"}

OutcomesOver(catalogs) ==
  {Outcome(FALSE, <<>>, "none")} \cup
  {Outcome(TRUE, c, h) : c \in catalogs, h \in Hooks}

\* The endpoints a top-level call passes: none, or a base url.
Configs == {<<NoUrl, NoUrl>>, <<"base", NoUrl>>}

Acts == {"return", "raise", "reinit"}

Init ==
  /\ ready_ = NOT_READY
  /\ successCallbacks_ = <<>>
  /\ errorCallbacks_ = <<>>
  /\ generatedClasses_ = <<>>
  /\ exportedEE = BaseExportedEE
  /\ Algorithms = {}
  /\ api = <<>>
  /\ transport = DefaultTransport
  /\ loads = {}
  /\ runs = [k \in {"success", "error"} \X CallbackIds |-> 0]
  /\ made = 0
  /\ applied = <<>>
  /\ threw = FALSE
  /\ calls = 0
  /\ last = NoOperation
  /\ phase = NoPhase
  /\ snapshot = [ready |-> NOT_READY, applied |-> <<>>, classes |-> <<>>,
                 algs |-> {}]
  /\ promotion = NoPromotion

\* A top-level call of ee.initialize(), by its mode.
Call(mode, config, act, outcome) ==
  LET s == [State EXCEPT !.made = @ + 1]
      cb == [id |-> s.made, act |-> act]
      onSuccess == IF mode \in {"async", "asyncErr"} THEN cb ELSE NoCallback
      onError == IF mode \in {"asyncErr", "errOnly"} THEN cb ELSE NoCallback
      r == initialize(s, config[1], config[2], onSuccess, onError, outcome)
  IN /\ calls < MaxCalls
     /\ calls' = calls + 1
     /\ Commit(r.s)
     /\ last' = Operation("initialize", cb.id, mode, config # <<NoUrl, NoUrl>>, r)
     /\ phase' = NextPhase(phase, last')
     /\ UNCHANGED <<snapshot, promotion>>

\* ee.initialize(base, tile, onSuccess) and ee.initialize(base, tile,
\* onSuccess, onError).
CallAsync(acts) ==
  \E mode \in {"async", "asyncErr"}, config \in Configs, act \in acts :
    Call(mode, config, act, NoOutcome)

\* ee.initialize(base, tile): the load runs inline.
CallSync(catalogs) ==
  \E config \in Configs, outcome \in OutcomesOver(catalogs) :
    Call("sync", config, "return", outcome)

\* ee.initialize(base, tile, undefined, onError).
CallErrorOnly ==
  \E config \in Configs : Call("errOnly", config, "return", NoOutcome)

\* ee.reset().
CallReset ==
  /\ Commit(reset(State))
  /\ last' = Operation("reset", 0, "", FALSE, Return(State))
  /\ phase' = NextPhase(phase, last')
  /\ UNCHANGED <<calls, promotion>>

\* An asynchronous load completes with the catalog: ee.ApiFunction holds it
\* and calls ee.initializationSuccess_.
Loaded(catalogs) ==
  \E attempt \in loads, catalog \in catalogs, hook \in Hooks :
    LET s == [State EXCEPT !.loads = @ \ {attempt}, !.api = catalog]
        r == initializationSuccess_(s, hook)
    IN /\ Commit(r.s)
       /\ last' = Operation("loadSuccess", attempt, "", FALSE, r)
       /\ phase' = NextPhase(phase, last')
       /\ UNCHANGED <<calls, snapshot, promotion>>

\* An asynchronous load fails: ee.ApiFunction calls ee.initializationFailure_.
LoadFails ==
  \E attempt \in loads :
    LET s == [State EXCEPT !.loads = @ \ {attempt}]
        r == initializationFailure_(s, LoadFailure)
    IN /\ Commit(r.s)
       /\ last' = Operation("loadFailure", attempt, "", FALSE, r)
       /\ phase' = NextPhase(phase, last')
       /\ UNCHANGED <<calls, snapshot, promotion>>

\* ------------------------------------------------------ the controller
\* Calls in every mode, with callbacks that return, raise or call
\* ee.initialize() themselves, against one server.

InitializeAsync == CallAsync(Acts)

InitializeSync == CallSync({CatalogA})

InitializeErrorOnly == CallErrorOnly

Reset == CallReset /\ UNCHANGED snapshot

LoadSucceeds == Loaded({CatalogA})

Next ==
  \/ InitializeAsync
  \/ InitializeSync
  \/ InitializeErrorOnly
  \/ Reset
  \/ LoadSucceeds
  \/ LoadFails

Spec == Init /\ [][Next]_vars

\* ------------------------------------------------- the registry over resets
\* Bootstraps against two servers with callbacks that return, and resets
\* that record the registry they find.

RegistryCatalogs == {CatalogA, CatalogB}

RegistryInitializeAsync == CallAsync({"return"})

RegistryInitializeSync == CallSync(RegistryCatalogs)

RegistryReset == CallReset /\ snapshot' = Snapshot

RegistryLoadSucceeds == Loaded(RegistryCatalogs)

RegistryNext ==
  \/ RegistryInitializeAsync
  \/ RegistryInitializeSync
  \/ RegistryReset
  \/ RegistryLoadSucceeds
  \/ LoadFails

RegistrySpec == Init /\ [][RegistryNext]_vars

\* ---------------------------------------------------------- completion
\* The controller with callbacks that do not raise and with loads that all
\* complete: a load that was started is an event the event loop delivers,
\* with the catalog or with an error.

WellBehaved == {"return"}

LiveInitializeAsync == calls < MaxLiveCalls /\ CallAsync(WellBehaved)

LiveInitializeSync == calls < MaxLiveCalls /\ InitializeSync

LiveInitializeErrorOnly == calls < MaxLiveCalls /\ InitializeErrorOnly

\* The completion of a load that is in flight, with an error or with the
\* catalog; it is enabled exactly while a load is in flight.
LoadCompletes == LoadFails \/ LoadSucceeds

LiveNext ==
  \/ LiveInitializeAsync
  \/ LiveInitializeSync
  \/ LiveInitializeErrorOnly
  \/ Reset
  \/ LoadSucceeds
  \/ LoadFails

LiveSpec == Init /\ [][LiveNext]_vars /\ WF_vars(LoadCompletes)

\* ------------------------------------------------ generator and binder
\* Bootstraps on catalogs drawn from a universe of signatures, in every
\* order, with and without a reset between them.

Universe ==
  {Sig(<<"Kernel", "gaussian">>, "Kernel", "", FALSE),
   Sig(<<"Dictionary", "get">>, "Object", "", FALSE),
   Sig(<<"Dictionary", "fromLists">>, "Dictionary", "Object", FALSE),
   Sig(<<"Image", "load">>, "Image", "", FALSE),
   Sig(<<"List", "map">>, "List", "Object", FALSE),
   Sig(<<"Landsat", "SimpleComposite">>, "Image", "", FALSE),
   Sig(<<"A">>, "Object", "", FALSE),
   Sig(<<"A", "B">>, "Object", "", FALSE),
   Sig(<<"A", "B", "C">>, "Kernel", "", FALSE),
   Sig(<<"Secret">>, "Object", "", TRUE),
   Sig(<<"Secret", "key">>, "Object", "", TRUE)}

\* The catalogs: the signatures of the server in the order it lists them,
\* no name twice.
Catalogs ==
  UNION {{c \in [1 .. n -> Universe] :
            \A i, j \in 1 .. n : c[i].name = c[j].name => i = j} :
         n \in 0 .. MaxSigs}

GeneratorInitialize ==
  /\ calls < MaxRuns
  /\ \E catalog \in Catalogs :
       Call("sync", <<"base", NoUrl>>, "return", Outcome(TRUE, catalog, "none"))

GeneratorReset == CallReset /\ UNCHANGED snapshot

GeneratorNext ==
  \/ GeneratorInitialize
  \/ GeneratorReset

GeneratorSpec == Init /\ [][GeneratorNext]_vars

\* ------------------------------------------------------------ promotion
\* Promotions of values of every kind to every target, before a bootstrap,
\* after one and after a reset.

CatalogP ==
  <<Sig(<<"Kernel", "gaussian">>, "Kernel", "", FALSE),
    Sig(<<"Kernel", "label">>, "String", "", FALSE),
    Sig(<<"Dictionary", "fromLists">>, "Dictionary", "Object", FALSE)>>

\* The targets: the cases of the switch, and for its default a generated
\* type, a hand-written type and a name that is no type.
Targets ==
  {"Image", "ImageCollection", "Feature", "EEObject", "Geometry",
   "FeatureCollection", "EECollection", "Collection", "Filter", "ErrorMargin",
   "Algorithm", "Date", "Dictionary", "String", "List",
   "Kernel", "Number", "Object"}

\* The classes a computed value can be an instance of.
Classes(registered) ==
  {"ComputedObject"} \cup (registered \cap (ApiTypes \cup {"Kernel", "Dictionary"}))

Values(registered) ==
  {Null, Undefined, Number("0"), Number("5"), JsString(""), JsString("foo"),
   JsString("gaussian"), JsString("label"), Boolean("false"), Boolean("true"),
   PlainObject, NativeDate(Number("5")), ApiFunction(JsString("foo"))}
  \cup {Computed(class, <<"f">>, <<>>) : class \in Classes(registered)}

PromoteInitialize ==
  \E hook \in {"none", "types"} :
    Call("sync", <<NoUrl, NoUrl>>, "return", Outcome(TRUE, CatalogP, hook))

PromoteReset == CallReset /\ UNCHANGED snapshot

Promote ==
  \E arg \in Values(exportedEE), klass \in Targets :
    /\ promotion' = [made |-> TRUE, arg |-> arg, klass |-> klass,
                      once |-> promote_(State, arg, klass),
                      twice |-> promoteTwice(State, arg, klass),
                      registered |-> klass \in exportedEE,
                      member |-> Member(api, klass, arg.lit) # <<>>]
    /\ UNCHANGED <<lib, calls, last, phase, snapshot>>

PromoteNext ==
  \/ PromoteInitialize
  \/ PromoteReset
  \/ Promote

PromoteSpec == Init /\ [][PromoteNext]_vars

\* ------------------------------------------------------------ the claims

\* The identifiers of the callbacks of one kind that a log shows invoked,
\* in the order of their invocation.
RECURSIVE Invoked(_, _)
Invoked(log, kind) ==
  IF log = <<>> THEN <<>>
  ELSE IF Head(log).ev = kind
  THEN <<Head(log).id>> \o Invoked(Tail(log), kind)
  ELSE Invoked(Tail(log), kind)

Ids(queue) == [i \in DOMAIN queue |-> queue[i].id]

Shows(o, ev) == \E i \in DOMAIN o.log : o.log[i].ev = ev

Min(a, b) == IF a < b THEN a ELSE b

IsSync(o) == o.op = "initialize" /\ o.mode = "sync"

\* C1: supersession.  When an asynchronous initialize() that started a load
\* is followed by a synchronous initialize() and no other call is made, the
\* synchronous call leaves the controller resolved, and the later completion
\* of the asynchronous load, with success or failure, changes neither
\* InitState nor the queues and invokes no callback; no callback has been
\* invoked more than once.
Supersession ==
  [][phase.stage = 2 =>
       /\ ready_ # LOADING
       /\ \A k \in DOMAIN runs : runs[k] <= 1
       /\ phase'.stage = 3 =>
            /\ UNCHANGED <<ready_, successCallbacks_, errorCallbacks_, runs>>
            /\ ~Shows(last', "success")
            /\ ~Shows(last', "error")
            /\ ~Shows(last', "ready")]_vars

\* The superseded load has completed after the synchronous call had invoked
\* a callback queued by the asynchronous one.
SupersessionWitness ==
  /\ phase.stage = 3
  /\ \E k \in DOMAIN runs : runs[k] = 1

\* C2: whenever InitState is NOT_READY or READY, between two operations,
\* both callback queues are empty (stated for the runs in which no callback
\* has raised).
QueuesEmptyWhenResolved ==
  (~threw /\ ready_ \in {NOT_READY, READY}) =>
    successCallbacks_ = <<>> /\ errorCallbacks_ = <<>>

\* A call of ee.initialize() without endpoints that finds the library READY.
FastPathStep ==
  /\ ready_ = READY
  /\ calls' = calls + 1
  /\ ~last'.config

\* C3: fast path.  A call of initialize() without endpoints while READY
\* runs no bootstrap: it configures nothing and starts no load, a success
\* callback it was given is invoked exactly once, first of all and in state
\* READY, and, unless that callback itself calls initialize(), InitState
\* stays READY and the queues, the registry, the namespace, the catalog and
\* the transport are unchanged.
FastPathIdempotence ==
  [][FastPathStep =>
       /\ last'.exc \in {NoError, CallbackError}
       /\ IF last'.mode \in {"async", "asyncErr"}
          THEN /\ last'.log # <<>>
               /\ Head(last'.log) = Event("success", last'.id, READY, NoError)
               /\ runs'[<<"success", last'.id>>] = 1
               /\ runs'[<<"error", last'.id>>] = 0
          ELSE last'.log = <<>> /\ last'.exc = NoError
       /\ ~last'.nested =>
            /\ Len(last'.log) <= 1
            /\ UNCHANGED <<ready_, successCallbacks_, errorCallbacks_,
                           generatedClasses_, exportedEE, Algorithms, api,
                           transport, loads>>]_vars

\* An asynchronous call without endpoints found the library READY and its
\* callback has run.
FastPathWitness ==
  /\ last.op = "initialize"
  /\ last.mode = "asyncErr"
  /\ ~last.config
  /\ last.log = <<Event("success", last.id, READY, NoError)>>
  /\ ready_ = READY

\* C4: ordering.  When the controller resolves to READY the queued success
\* callbacks are invoked in the order of their initialize() calls, which is
\* the order of the queue, none skipped; a callback that raises leaves the
\* ones behind it in the queue, so each is invoked before the next is taken.
Ordering ==
  [][Shows(last', "ready") /\ last' # last =>
       LET inv == Invoked(last'.log, "success")
           queued == Ids(successCallbacks_)
       IN /\ \A i \in 1 .. Min(Len(inv), Len(queued)) : inv[i] = queued[i]
          /\ \A i, j \in DOMAIN inv : i < j => inv[i] < inv[j]
          /\ last'.exc = NoError => Len(inv) >= Len(queued)
          /\ (last'.exc = CallbackError /\ ~last'.nested) =>
               successCallbacks_' =
                 SubSeq(successCallbacks_, Len(inv) + 1, Len(queued))]_vars

\* Three queued success callbacks have been invoked by one resolution.
OrderingWitness ==
  /\ Shows(last, "ready")
  /\ Len(Invoked(last.log, "success")) = 3
  /\ last.exc = NoError

\* C5: in synchronous mode a failure of the bootstrap, be it of the load or
\* of a hook, is raised to the caller of initialize() (stated for the calls
\* during which no callback raises or calls initialize()).
SyncFailuresRaise ==
  (IsSync(last) /\ ~threw /\ ~last.nested) =>
    \A i \in DOMAIN last.log :
      (last.log[i].ev = "failure" /\ last.log[i].at = LOADING) =>
        last.exc = last.log[i].arg

UsageErrorTouchesNothing ==
  [][(/\ calls' = calls + 1
      /\ last'.mode = "errOnly"
      /\ ~(ready_ = READY /\ ~last'.config)) =>
       /\ last'.exc = UsageError
       /\ last'.log = <<>>
       /\ UNCHANGED <<ready_, successCallbacks_, errorCallbacks_,
                      generatedClasses_, exportedEE, Algorithms, api,
                      transport, loads, runs>>]_vars

\* The usage error has been raised while callbacks were queued.
UsageErrorWitness ==
  /\ last.exc = UsageError
  /\ ready_ = LOADING
  /\ errorCallbacks_ # <<>>

\* A successful bootstrap, the first generator run since an ee.reset() that
\* found the library READY after a bootstrap against the same catalog.
Rebooted ==
  /\ Shows(last, "ready")
  /\ applied = <<api>>
  /\ snapshot.ready = READY
  /\ snapshot.applied # <<>>
  /\ snapshot.applied[Len(snapshot.applied)] = api

\* What an ee.reset() leaves.
ResetLeavesBase ==
  last.op = "reset" =>
    /\ ready_ = NOT_READY
    /\ generatedClasses_ = <<>>
    /\ exportedEE \cap SeqToSet(snapshot.classes) = {}
    /\ HandWrittenTypes \subseteq exportedEE
    /\ Algorithms = {}

\* C8, as claimed: reset() after a successful bootstrap leaves NOT_READY, no
\* generated class and an empty namespace, and a successful initialize()
\* against the same catalog then regenerates the generated classes and the
\* namespace entries the library had before the reset.
ResetSymmetryAlways ==
  /\ ResetLeavesBase
  /\ Rebooted =>
       /\ SeqToSet(generatedClasses_) = SeqToSet(snapshot.classes)
       /\ Algorithms = snapshot.algs

\* C8, amended: the same, provided the bootstrap before the reset was the
\* only generator run on its registry, that is, the library had not been
\* initialized against another catalog since the reset before it.
ResetSymmetry ==
  /\ ResetLeavesBase
  /\ (Rebooted /\ snapshot.applied = <<api>>) =>
       /\ SeqToSet(generatedClasses_) = SeqToSet(snapshot.classes)
       /\ Algorithms = snapshot.algs

\* Classes and namespace entries have been regenerated after a reset.
ResetSymmetryWitness ==
  /\ Rebooted
  /\ snapshot.applied = <<api>>
  /\ generatedClasses_ # <<>>
  /\ Algorithms # {}

\* C10, as claimed: for every target and every value, promoting the
\* promoted value again gives the promoted value.
PromotionIdempotentAlways ==
  promotion.made => promotion.twice = promotion.once

\* The promotions whose result is not of the target type: a computed value
\* promoted to Date, and, in the default branch, a string that names a member
\* of the type whose result is no instance of the type.
PromotesAside ==
  \/ promotion.klass = "Date" /\ InstanceOf(promotion.arg, "ComputedObject")
  \/ /\ promotion.klass \in {"Kernel", "Number", "Object"}
     /\ promotion.arg.kind = "string"
     /\ promotion.once.kind = "computed"
     /\ ~InstanceOf(promotion.once, promotion.klass)

\* C10, amended: promoting the promoted value again gives the promoted
\* value, except when a computed value is promoted to Date and when the
\* default branch calls a member whose result is no instance of the type.
PromotionIdempotent ==
  (promotion.made /\ ~PromotesAside) => promotion.twice = promotion.once

\* A number has been promoted to an ErrorMargin call, which the second
\* promotion left as it was.
PromotionIdempotentWitness ==
  /\ promotion.made
  /\ promotion.klass = "ErrorMargin"
  /\ promotion.arg = Number("5")
  /\ promotion.once # promotion.arg
  /\ promotion.twice = promotion.once

\* The targets the switch has no case for.
DefaultTargets ==
  Targets \
  {"Image", "ImageCollection", "Feature", "EEObject", "Geometry",
   "FeatureCollection", "EECollection", "Collection", "Filter", "ErrorMargin",
   "Algorithm", "Date", "Dictionary", "String", "List"}

\* C11: in the default branch the promotion of a string that names no
\* member of a registered type raises the error that names the type and the
\* string; the string is never returned unchanged.
UnknownMemberRaises ==
  (/\ promotion.made
   /\ promotion.klass \in DefaultTargets
   /\ promotion.registered
   /\ promotion.arg.kind = "string"
   /\ ~promotion.member) =>
    promotion.once =
      Raise("Unknown algorithm: ", promotion.klass, promotion.arg)

\* C18: in the default branch a value that is neither null nor undefined is
\* returned unchanged when it is an instance of the registered type or the
\* type is not registered, a string gives the call of the member it names,
\* and any other value, 0 and false included, gives a new instance of the
\* type built from it.
DefaultBranchPromotes ==
  (/\ promotion.made
   /\ promotion.klass \in DefaultTargets
   /\ promotion.arg \notin {Null, Undefined}) =>
    IF ~promotion.registered THEN promotion.once = promotion.arg
    ELSE IF InstanceOf(promotion.arg, promotion.klass)
    THEN promotion.once = promotion.arg
    ELSE IF promotion.arg.kind = "string"
    THEN \/ promotion.once.kind = "raise"
         \/ /\ promotion.once.kind = "computed"
            /\ promotion.once.func = <<promotion.klass, promotion.arg.lit>>
    ELSE promotion.once = target(promotion.klass, promotion.arg)

\* A completion that does nothing: it resolves nothing and invokes nothing.
NoOp(o) ==
  /\ ~Shows(o, "ready")
  /\ ~Shows(o, "success")
  /\ ~Shows(o, "error")
  /\ \A i \in DOMAIN o.log : o.log[i].ev = "failure" => o.log[i].at # LOADING

\* C12: the completion, success or failure, of an asynchronous load that a
\* synchronous initialize() or a reset() has superseded does nothing, also
\* when another initialize() has put the controller back into LOADING
\* (stated for the runs in which no callback has raised or has called
\* initialize() itself).
StaleCompletionIsNoOp ==
  (/\ last.op \in {"loadSuccess", "loadFailure"}
   /\ last.id \in phase.stale
   /\ ~threw
   /\ made = calls) =>
    NoOp(last)

\* C13: a success callback is invoked only while InitState is READY, also
\* when a success callback calls initialize() with a new endpoint while the
\* queue is drained (stated for the runs in which no callback has raised).
SuccessOnlyWhenReady ==
  ~threw =>
    \A i \in DOMAIN last.log :
      last.log[i].ev = "success" => last.log[i].at = READY

\* A top-level asynchronous call of ee.initialize().
AsyncStep ==
  /\ calls' = calls + 1
  /\ last'.mode \in {"async", "asyncErr"}

\* C14: coalescing.  An asynchronous initialize() made while LOADING only
\* appends its callbacks to the queues: it configures nothing, also when it
\* passes an endpoint, starts no load, invokes nothing and leaves InitState
\* LOADING; an asynchronous call whose callback does not call initialize()
\* starts at most one load, and only when it finds InitState not LOADING.
Coalescing ==
  [][AsyncStep =>
       /\ ready_ = LOADING =>
            /\ last'.log = <<>>
            /\ last'.exc = NoError
            /\ \E act \in Acts :
                 successCallbacks_' =
                   Append(successCallbacks_, [id |-> last'.id, act |-> act])
            /\ Len(errorCallbacks_') =
                 Len(errorCallbacks_) + (IF last'.mode = "asyncErr" THEN 1 ELSE 0)
            /\ SubSeq(errorCallbacks_', 1, Len(errorCallbacks_)) = errorCallbacks_
            /\ UNCHANGED <<ready_, transport, loads, api, generatedClasses_,
                           exportedEE, Algorithms, runs>>
       /\ ~last'.nested =>
            /\ Cardinality(loads' \ loads) <= 1
            /\ loads \subseteq loads'
            /\ Len(Invoked(last'.log, "load")) <= 1]_vars

\* An asynchronous call that passes an endpoint has been made while LOADING
\* and has been queued behind the call before it.
CoalescingWitness ==
  /\ last.mode = "asyncErr"
  /\ last.config
  /\ last.log = <<>>
  /\ last.exc = NoError
  /\ ready_ = LOADING
  /\ Len(successCallbacks_) = 2
  /\ Cardinality(loads) = 1

\* The failure handler has run in LOADING as entry i of the log of the step:
\* NOT_READY, the success callbacks discarded and none invoked, the queued
\* error callbacks invoked once each, in their order, with the error.
ResolvesFailure(o, i) ==
  /\ ready_' = NOT_READY
  /\ successCallbacks_' = <<>>
  /\ errorCallbacks_' = <<>>
  /\ Invoked(o.log, "success") = <<>>
  /\ Invoked(o.log, "error") = Ids(errorCallbacks_)
  /\ \A k \in DOMAIN runs :
       runs'[k] = runs[k] +
         (IF k[1] = "error" /\ k[2] \in Range(Ids(errorCallbacks_))
          THEN 1 ELSE 0)
  /\ \A j \in DOMAIN o.log :
       o.log[j].ev = "error" =>
         /\ j > i
         /\ o.log[j].arg = o.log[i].arg
         /\ o.log[j].at = NOT_READY

\* The failure handler has run in another state as entry i of the log of the
\* step: nothing happens after it, and a completion that is nothing but this
\* call changes nothing.
IgnoresFailure(o, i) ==
  /\ i = Len(o.log)
  /\ o.op = "loadFailure" =>
       UNCHANGED <<ready_, successCallbacks_, errorCallbacks_, runs,
                   generatedClasses_, exportedEE, Algorithms, api, transport>>

Inferable(signatures, bound) ==
  {name \in {signatures[i].name[1] :
               i \in {j \in DOMAIN signatures : Len(signatures[j].name) > 1}} :
     /\ \E i \in DOMAIN signatures : signatures[i].returns.type = name
     /\ name \notin bound}

UnboundSignatures ==
  {api[i] : i \in {j \in DOMAIN api :
                     \/ Len(api[j].name) = 1
                     \/ api[j].name[1] \notin
                          ApiTypes \cup Range(generatedClasses_)}}

\* C17: after a run of the binder every unbound signature that is not
\* hidden is a callable leaf at the path of its dotted name, and no hidden
\* one is attached, whatever the order of the catalog, also when one name is
\* a dotted prefix of another.
UnboundAllReachable ==
  Shows(last, "ready") =>
    \A sig \in UnboundSignatures :
      IF sig.hidden
      THEN \A e \in Algorithms : ~(e.leaf /\ e.sig = sig.name)
      ELSE Leaf(sig.name, sig.name) \in Algorithms

\* C19: of the two callbacks of an asynchronous initialize() that gave both,
\* at most one is ever invoked, and at most once, whatever calls, resets and
\* load completions follow, also when callbacks call initialize() while a
\* queue is drained.
AtMostOneCallbackOnce ==
  \A id \in CallbackIds : runs[<<"success", id>>] + runs[<<"error", id>>] <= 1

\* C20: when every load completes and no callback raises, every
\* asynchronous initialize() that gave a success and an error callback has
\* one of them invoked in the end, whatever calls and resets come before the
\* load completes.
EventuallyInvoked ==
  \A id \in 1 .. MaxLiveCalls :
    (last.op = "initialize" /\ last.mode = "asyncErr" /\ last.id = id)
      ~> (runs[<<"success", id>>] + runs[<<"error", id>>] > 0)

\* C9: a reserved name is never registered as a generated class, whatever
\* the catalog.
ReservedNeverGenerated ==
  \A i \in DOMAIN blacklist : blacklist[i] \notin SeqToSet(generatedClasses_)

====
